---- MODULE Spec2Model ----
(***************************************************************************)
(* Model of src/src/lib.rs: the bump arena Bump<SIZE, ALIGNMENT> and its   *)
(* MallocFree implementation.                                              *)
(*                                                                         *)
(* usize is modelled as the integers modulo Word = 2^WordBits.  The two    *)
(* builds rustc produces differ on arithmetic overflow: with               *)
(* overflow-checks (the debug profile) an overflowing +, - or * panics,    *)
(* without them (the release profile) it wraps.  The build is chosen once, *)
(* in Init.  Slice indexing is bounds-checked in every build.              *)
(*                                                                         *)
(* A panic leaves the fields as they were (both panics of malloc happen    *)
(* before its first assignment) and ends the use of the arena: the only    *)
(* step left is the drop that unwinding performs.                          *)
(***************************************************************************)
EXTENDS Integers, Sequences, FiniteSets, TLC

\* ---------------------------------------------------------------- bounds
\* Width of usize in bits.
WordBits == 4
\* Largest SIZE parameter an arena is instantiated with (Init draws 1..MaxSize).
MaxSize == 6
\* Largest ALIGNMENT parameter an arena is instantiated with (Init draws 1..MaxAlign).
MaxAlign == 4
\* Cap on the outstanding count: malloc's success path is explored while count < MaxCount.
MaxCount == 3
\* Cap on the allocations the caller of SpecBalanced holds at once.
MaxLive == 2

Word == 2 ^ WordBits

VARIABLES
    SIZE,                  \* const generic SIZE of this arena
    ALIGNMENT,             \* const generic ALIGNMENT of this arena (positive)
    overflow_checks,       \* TRUE: overflow panics; FALSE: overflow wraps
    count,                 \* Bump.count
    head,                  \* Bump.head
    maximum_usage,         \* Bump.maximum_usage
    on_drop_without_free,  \* Bump.on_drop_without_free: which fn() is installed
    on_changed,            \* Bump.on_changed: "None" or "Some"
    life,                  \* "alive", "panicked" (a call panicked), "dropped"
    leak_calls,            \* how many times each fn() leak handler has run
    last,                  \* the last call: operation, argument, result, the
                           \* fields before it, and the Status values it handed
                           \* to the change handler
    allocator,             \* the Allocator the caller holds: "none", or the
                           \* object its fat reference points to
    handle,                \* the AllocatorHandle the caller holds: "none", or
                           \* the storage the pointer points to
    live                   \* the ledger of a caller that frees what it was
                           \* given (SpecBalanced): the allocations it holds,
                           \* oldest first

vars == <<SIZE, ALIGNMENT, overflow_checks, count, head, maximum_usage,
          on_drop_without_free, on_changed, life, leak_calls, last,
          allocator, handle, live>>

\* What the caller holds; the arena's own operations do not touch it.
caller == <<allocator, handle, live>>

arena == <<count, head, maximum_usage>>

\* The fn() values a caller can install as leak handler: the default and one of its own.
DropHandlers == {"no_panic_on_drop_without_free", "user_handler"}

\* The fields as a record: what `last.before` keeps.
Fields == [count |-> count, head |-> head, maximum_usage |-> maximum_usage]

\* Bump::changed run against the fields (c, h, m): the Status values delivered.
changed(action, c, h, m) ==
    IF on_changed = "Some"
    THEN <<[action |-> action, count |-> c, usage |-> h, maximum_usage |-> m]>>
    ELSE <<>>

\* ((size + ALIGNMENT - 1) / ALIGNMENT) * ALIGNMENT in usize arithmetic, wrapping.
rounded_size(size) ==
    (((((size + ALIGNMENT) % Word) + Word - 1) % Word) \div ALIGNMENT) * ALIGNMENT

\* self.head + rounded size in usize arithmetic, wrapping.
next_head(h, size) == (h + rounded_size(size)) % Word

\* Whether an operation of line 90 overflows: size + ALIGNMENT, the - 1 after
\* it (only when the sum wrapped to 0, so covered by the first), or the final +.
\* The product cannot: (x / A) * A <= x.
overflows(h, size) ==
    \/ size + ALIGNMENT >= Word
    \/ h + rounded_size(size) >= Word

\* Mutant of out_of_space: the limit is one allocation unit too high.
out_of_space_lax(nh) == nh > SIZE + ALIGNMENT

\* if next_head > SIZE
out_of_space(nh) == nh > SIZE

\* &mut self.heap[self.head]: the index is checked against the length SIZE.
index_in_bounds(h) == h < SIZE

\* Mutant of new_maximum_usage: the comparison is the wrong way round.
new_maximum_usage_reversed(m, h) == IF m > h THEN h ELSE m

\* Mutant of new_maximum_usage: assigned without the comparison.
new_maximum_usage_unconditional(m, h) == h

\* if self.maximum_usage < self.head { self.maximum_usage = self.head }
new_maximum_usage(m, h) == IF m < h THEN h ELSE m

\* A call that panics: nothing assigned, no handler called.
panic(op, size) ==
    /\ life' = "panicked"
    /\ last' = [op |-> op, size |-> size, ret |-> "panic", offset |-> 0,
                before |-> Fields, events |-> <<>>]
    /\ UNCHANGED <<SIZE, ALIGNMENT, overflow_checks, count, head, maximum_usage,
                   on_drop_without_free, on_changed, leak_calls>>

\* Mutant of malloc_fail: head is assigned before the check, so a failed call
\* keeps the advanced head.
malloc_fail_keeps_next_head(size) ==
    /\ head' = next_head(head, size)
    /\ last' = [op |-> "malloc", size |-> size, ret |-> "null", offset |-> 0,
                before |-> Fields,
                events |-> changed("Error", count, head', maximum_usage)]
    /\ UNCHANGED <<SIZE, ALIGNMENT, overflow_checks, count, maximum_usage,
                   on_drop_without_free, on_changed, life, leak_calls>>

\* malloc's failure path: self.changed(Action::Error); return null.
malloc_fail(size) ==
    /\ last' = [op |-> "malloc", size |-> size, ret |-> "null", offset |-> 0,
                before |-> Fields,
                events |-> changed("Error", count, head, maximum_usage)]
    /\ UNCHANGED <<SIZE, ALIGNMENT, overflow_checks, count, head, maximum_usage,
                   on_drop_without_free, on_changed, life, leak_calls>>

\* malloc's success path, after the index check.
malloc_ok(size, nh) ==
    /\ head' = nh
    /\ maximum_usage' = new_maximum_usage(maximum_usage, nh)
    /\ count' = (count + 1) % Word
    /\ last' = [op |-> "malloc", size |-> size, ret |-> "ptr", offset |-> head,
                before |-> Fields,
                events |-> changed("Malloc", count', head', maximum_usage')]
    /\ UNCHANGED <<SIZE, ALIGNMENT, overflow_checks,
                   on_drop_without_free, on_changed, life, leak_calls>>

\* MallocFree::malloc
malloc(size) ==
    /\ life = "alive"
    /\ IF overflow_checks /\ overflows(head, size)
       THEN panic("malloc", size)
       ELSE IF out_of_space(next_head(head, size))
       THEN malloc_fail(size)
       ELSE IF ~index_in_bounds(head)
       THEN panic("malloc", size)
       ELSE count < MaxCount /\ malloc_ok(size, next_head(head, size))

\* Mutant of free_count: the decrement without its guard, wrapping at 0.
free_count_unguarded(c) == (c + Word - 1) % Word

\* if self.count > 0 { self.count = self.count - 1 }
free_count(c) == IF c > 0 THEN c - 1 ELSE c

\* Mutant of free_head: head is never reset.
free_head_never_reset(c0, c, h) == h

\* Mutant of free_head: head is reset by every counted free.
free_head_always_reset(c0, c, h) == IF c0 > 0 THEN 0 ELSE h

\* Mutant of free_head: the count is tested before the decrement.
free_head_tested_before_decrement(c0, c, h) == IF c0 = 0 THEN 0 ELSE h

\* if self.count > 0 { ...; if self.count == 0 { self.head = 0 } }
\* c0 is the count before the call, c the count after the decrement.
free_head(c0, c, h) == IF c0 > 0 /\ c = 0 THEN 0 ELSE h

\* MallocFree::free; the pointer is not read.
free(ptr) ==
    /\ life = "alive"
    /\ count' = free_count(count)
    /\ head' = free_head(count, count', head)
    /\ last' = [op |-> "free", size |-> 0, ret |-> "none", offset |-> 0,
                before |-> Fields,
                events |-> changed("Free", count', head', maximum_usage)]
    /\ UNCHANGED <<SIZE, ALIGNMENT, overflow_checks, maximum_usage,
                   on_drop_without_free, on_changed, life, leak_calls>>

\* Bump::handle_drop_without_free
handle_drop_without_free(handler) ==
    /\ life = "alive"
    /\ on_drop_without_free' = handler
    /\ last' = [op |-> "handle_drop_without_free", size |-> 0, ret |-> "none",
                offset |-> 0, before |-> Fields, events |-> <<>>]
    /\ UNCHANGED <<SIZE, ALIGNMENT, overflow_checks, count, head, maximum_usage,
                   on_changed, life, leak_calls>>

\* Bump::handle_on_changed
handle_on_changed ==
    /\ life = "alive"
    /\ on_changed' = "Some"
    /\ last' = [op |-> "handle_on_changed", size |-> 0, ret |-> "none",
                offset |-> 0, before |-> Fields, events |-> <<>>]
    /\ UNCHANGED <<SIZE, ALIGNMENT, overflow_checks, count, head, maximum_usage,
                   on_drop_without_free, life, leak_calls>>

\* Mutant of drop: the handler is called without the test of count.
drop_without_count_test ==
    /\ life \in {"alive", "panicked"}
    /\ life' = "dropped"
    /\ leak_calls' = [leak_calls EXCEPT ![on_drop_without_free] = @ + 1]
    /\ last' = [op |-> "drop", size |-> 0, ret |-> "none", offset |-> 0,
                before |-> Fields, events |-> <<>>]
    /\ UNCHANGED <<SIZE, ALIGNMENT, overflow_checks, count, head, maximum_usage,
                   on_drop_without_free, on_changed>>

\* Drop::drop: at the end of the owner's scope, or while a panic unwinds.
drop ==
    /\ life \in {"alive", "panicked"}
    /\ life' = "dropped"
    /\ leak_calls' = IF count > 0
                     THEN [leak_calls EXCEPT ![on_drop_without_free] = @ + 1]
                     ELSE leak_calls
    /\ last' = [op |-> "drop", size |-> 0, ret |-> "none", offset |-> 0,
                before |-> Fields, events |-> <<>>]
    /\ UNCHANGED <<SIZE, ALIGNMENT, overflow_checks, count, head, maximum_usage,
                   on_drop_without_free, on_changed>>

\* MallocFree::get_allocator: the fat reference (self as &mut dyn MallocFree)
\* reinterpreted as an Allocator; its data pointer is the arena.
get_allocator ==
    /\ life = "alive"
    /\ allocator' = "bump"
    /\ last' = [op |-> "get_allocator", size |-> 0, ret |-> "none",
                offset |-> 0, before |-> Fields, events |-> <<>>]
    /\ UNCHANGED <<SIZE, ALIGNMENT, overflow_checks, count, head, maximum_usage,
                   on_drop_without_free, on_changed, life, leak_calls,
                   handle, live>>

\* Allocator::get_handle(self: Self): `return &self`.  The Allocator is
\* passed by value, so &self is the address of the parameter's own slot in
\* get_handle's frame, and the pointer returned is that address.
get_handle ==
    /\ life = "alive"
    /\ allocator # "none"
    /\ handle' = "get_handle::self"
    /\ last' = [op |-> "get_handle", size |-> 0, ret |-> "none",
                offset |-> 0, before |-> Fields, events |-> <<>>]
    /\ UNCHANGED <<SIZE, ALIGNMENT, overflow_checks, count, head, maximum_usage,
                   on_drop_without_free, on_changed, life, leak_calls,
                   allocator, live>>

\* The storage that is live between calls: the arena until it is dropped and
\* the caller's own copy of the Allocator.  The slot of a by-value parameter
\* is live only while its function runs, so it is never among them.
live_storage ==
    (IF life # "dropped" THEN {"bump"} ELSE {})
        \cup (IF allocator # "none" THEN {"caller::allocator"} ELSE {})

\* Bump::new, for every instantiation within the bounds and both builds.
Init ==
    /\ SIZE \in 1..MaxSize
    /\ ALIGNMENT \in 1..MaxAlign
    /\ overflow_checks \in BOOLEAN
    /\ count = 0
    /\ head = 0
    /\ maximum_usage = 0
    /\ on_drop_without_free = "no_panic_on_drop_without_free"
    /\ on_changed = "None"
    /\ life = "alive"
    /\ leak_calls = [h \in DropHandlers |-> 0]
    /\ last = [op |-> "new", size |-> 0, ret |-> "none", offset |-> 0,
               before |-> [count |-> 0, head |-> 0, maximum_usage |-> 0],
               events |-> <<>>]
    /\ allocator = "none"
    /\ handle = "none"
    /\ live = <<>>

\* The pointers a caller may hand to free: null (-1), the first byte of the
\* heap (0) or the byte after it (1).  free does not read its argument.
Pointers == -1 .. 1

Next ==
    \/ \E size \in 0..(Word - 1) : malloc(size) /\ UNCHANGED caller
    \/ \E ptr \in Pointers : free(ptr) /\ UNCHANGED caller
    \/ \E handler \in DropHandlers :
           handle_drop_without_free(handler) /\ UNCHANGED caller
    \/ handle_on_changed /\ UNCHANGED caller
    \/ drop /\ UNCHANGED caller
    \/ get_allocator
    \/ get_handle

Spec == Init /\ [][Next]_vars

\* A caller in balanced use: it records every allocation malloc gives it,
\* with the length the arena reserved for it, and frees only allocations it
\* holds, each once.
malloc_recorded(size) ==
    /\ malloc(size)
    /\ last'.ret = "ptr" => Len(live) < MaxLive
    /\ live' = IF last'.ret = "ptr"
               THEN Append(live, [offset |-> last'.offset,
                                  len |-> rounded_size(size)])
               ELSE live
    /\ UNCHANGED <<allocator, handle>>

free_held(i) ==
    /\ free(live[i].offset)
    /\ live' = SubSeq(live, 1, i - 1) \o SubSeq(live, i + 1, Len(live))
    /\ UNCHANGED <<allocator, handle>>

NextBalanced ==
    \/ \E size \in 0..(Word - 1) : malloc_recorded(size)
    \/ \E i \in 1..Len(live) : free_held(i)
    \/ drop /\ UNCHANGED caller

SpecBalanced == Init /\ [][NextBalanced]_vars

\* ---------------------------------------------------------------- properties
\* size rounded up to the next multiple of ALIGNMENT, over the integers:
\* ceil(size / ALIGNMENT) * ALIGNMENT as the specification states it.
RoundUp(size) == ((size + ALIGNMENT - 1) \div ALIGNMENT) * ALIGNMENT

Max(a, b) == IF a < b THEN b ELSE a

\* C1: malloc(size) returns null if and only if
\* head + ceil(size/ALIGNMENT)*ALIGNMENT > SIZE, with head the value before
\* the call.  Refuted by sizes whose rounding overflows usize.
C1_NullIffDoesNotFit ==
    last.op = "malloc" =>
        ((last.ret = "null") <=> (last.before.head + RoundUp(last.size) > SIZE))

\* C2: a successful malloc(size) returns the offset head had before the call,
\* sets head to the old head plus size rounded up to a multiple of ALIGNMENT,
\* increments count by exactly 1 and sets maximum_usage to
\* max(old maximum_usage, new head).  Refuted where the rounding wraps.
C2_SuccessfulMallocEffect ==
    (last.op = "malloc" /\ last.ret = "ptr") =>
        /\ last.offset = last.before.head
        /\ head = last.before.head + RoundUp(last.size)
        /\ count = last.before.count + 1
        /\ maximum_usage = Max(last.before.maximum_usage, head)

\* C3: a malloc that returns null leaves head, count and maximum_usage as
\* they were before the call.
C3_FailedMallocChangesNothing ==
    (last.op = "malloc" /\ last.ret = "null") => Fields = last.before

\* C3 witness: a malloc failed on an arena that holds allocations.
C3_Witness ==
    /\ last.op = "malloc"
    /\ last.ret = "null"
    /\ last.before.head > 0
    /\ last.before.count > 1
    /\ last.before.maximum_usage > last.before.head

\* C4: a free made with count > 0 decrements count by exactly 1, and if that
\* brings count to 0 then head is 0 afterwards.
C4_CountedFreeDecrementsAndResets ==
    (last.op = "free" /\ last.before.count > 0) =>
        /\ count = last.before.count - 1
        /\ (count = 0 => head = 0)

\* C4 witness: the free of the last outstanding allocation of a used arena.
C4_Witness ==
    /\ last.op = "free"
    /\ last.before.count = 1
    /\ last.before.head > ALIGNMENT
    /\ count = 0
    /\ head = 0

\* C5: a free made with count = 0 leaves head, count and maximum_usage
\* unchanged.
C5_FreeAtZeroChangesNothing ==
    (last.op = "free" /\ last.before.count = 0) => Fields = last.before

\* C5 witness: a free with nothing outstanding, on an arena that was used.
C5_Witness ==
    /\ last.op = "free"
    /\ last.before.count = 0
    /\ count = 0
    /\ maximum_usage > 0

\* C6: a free that leaves count > 0 changes neither head nor maximum_usage,
\* so every size that did not fit before the free does not fit after it.
C6_PartialFreeReclaimsNothing ==
    (last.op = "free" /\ count > 0) =>
        /\ head = last.before.head
        /\ maximum_usage = last.before.maximum_usage
        /\ \A size \in 0..(Word - 1) :
               out_of_space(next_head(last.before.head, size))
                   => out_of_space(next_head(head, size))

\* C6 witness: a free that left allocations outstanding on an arena in which
\* a request of SIZE bytes does not fit.
C6_Witness ==
    /\ last.op = "free"
    /\ count > 0
    /\ last.before.head > 0
    /\ out_of_space(next_head(head, SIZE))

\* C7: in every reachable state 0 <= head <= SIZE and count >= 0; the count
\* never underflows: no free leaves it above its value before the call.
C7_HeadAndCountInRange ==
    /\ 0 <= head
    /\ head <= SIZE
    /\ count >= 0
    /\ (last.op = "free" => count <= last.before.count)

\* C7 witness: the arena is full with several allocations outstanding.
C7_Witness ==
    /\ head = SIZE
    /\ count > 1
    /\ last.op = "malloc"
    /\ last.ret = "ptr"

C9_MaximumUsageMonotoneAndBounded ==
    /\ maximum_usage <= SIZE
    /\ maximum_usage >= last.before.maximum_usage

\* C9 witness: a free reset head to 0 and maximum_usage kept its value.
C9_Witness ==
    /\ last.op = "free"
    /\ last.before.head > 0
    /\ head = 0
    /\ maximum_usage >= last.before.head
    /\ maximum_usage > 0

\* C10: in every reachable state, also where head = SIZE, malloc(0) succeeds:
\* it returns the current head, leaves head unchanged and increments count
\* by 1.  Refuted where head = SIZE: the index check of heap[head] panics.
C10_MallocZeroSucceeds ==
    (last.op = "malloc" /\ last.size = 0) =>
        /\ last.ret = "ptr"
        /\ last.offset = last.before.head
        /\ head = last.before.head
        /\ count = last.before.count + 1

\* C11: no malloc or free call panics: every malloc returns null or an
\* address inside the buffer, and every free completes.  Refuted by the
\* index check of heap[head] at head = SIZE and, in builds with overflow
\* checks, by the arithmetic of next_head.
C11_NoCallPanics ==
    last.op \in {"malloc", "free"} =>
        /\ last.ret # "panic"
        /\ (last.op = "malloc" =>
                \/ last.ret = "null"
                \/ last.ret = "ptr" /\ 0 <= last.offset /\ last.offset < SIZE)

\* The tag the change handler is to receive for the last call.
ExpectedAction ==
    IF last.op = "free" THEN "Free"
    ELSE IF last.ret = "ptr" THEN "Malloc" ELSE "Error"

\* C12: with a change handler installed every malloc and every free call
\* invokes it exactly once, with tag Malloc for a successful allocation,
\* Error for a failed one and Free for every free, and with count, usage and
\* maximum_usage equal to the fields after the operation; with no handler
\* installed no call occurs.  Refuted by a malloc that panics: it invokes
\* nothing.
C12_ChangeHandlerOncePerCall ==
    last.op \in {"malloc", "free"} =>
        IF on_changed = "Some"
        THEN last.events = <<[action |-> ExpectedAction, count |-> count,
                              usage |-> head, maximum_usage |-> maximum_usage]>>
        ELSE last.events = <<>>

\* C13: when the arena is dropped the installed leak handler is invoked
\* exactly once if count > 0 at that moment and not at all if count = 0, no
\* other handler is invoked, and no handler is invoked before the drop (not
\* by malloc, not by free).
C13_LeakHandlerOnDropOnly ==
    /\ life # "dropped" => \A h \in DropHandlers : leak_calls[h] = 0
    /\ last.op = "drop" =>
           \A h \in DropHandlers :
               leak_calls[h] = IF h = on_drop_without_free /\ count > 0
                               THEN 1 ELSE 0

\* C13 witness: an arena with allocations outstanding and a handler of the
\* caller's installed was dropped, and that handler ran once.
C13_Witness ==
    /\ last.op = "drop"
    /\ life = "dropped"
    /\ count > 0
    /\ on_drop_without_free = "user_handler"
    /\ leak_calls["user_handler"] = 1
    /\ leak_calls["no_panic_on_drop_without_free"] = 0

\* C15: head decreases only in a free that takes count from 1 to 0 (head is
\* then 0), and every malloc either leaves head, count and maximum_usage
\* unchanged or strictly increases count without decreasing head.  Refuted
\* where head + rounded size wraps: a successful malloc lowers head.
C15_HeadDecreasesOnlyOnLastFree ==
    /\ head < last.before.head =>
           /\ last.op = "free"
           /\ last.before.count = 1
           /\ count = 0
           /\ head = 0
    /\ last.op = "malloc" =>
           \/ Fields = last.before
           \/ count > last.before.count /\ head >= last.before.head

\* C16: whenever malloc(size) succeeds the region it reserves is at least
\* size bytes long: new head - old head >= size.  Refuted where
\* size + ALIGNMENT - 1 wraps.
C16_ReservesAtLeastSize ==
    (last.op = "malloc" /\ last.ret = "ptr") =>
        head - last.before.head >= last.size

\* C18: in every reachable state head is a multiple of ALIGNMENT, and so is
\* the offset of every address malloc returned.  Refuted where
\* head + rounded size wraps and ALIGNMENT does not divide 2^w.
C18_HeadIsAligned ==
    /\ head % ALIGNMENT = 0
    /\ (last.op = "malloc" /\ last.ret = "ptr") => last.offset % ALIGNMENT = 0

\* C19: in every reachable state head <= maximum_usage, so every Status
\* delivered to the change handler has usage <= maximum_usage.
C19_HeadAtMostMaximumUsage ==
    /\ head <= maximum_usage
    /\ \A i \in 1..Len(last.events) :
           last.events[i].usage <= last.events[i].maximum_usage

\* C19 witness: the change handler received a Status with usage strictly
\* below maximum_usage, for an allocation made after a reset of head.
C19_Witness ==
    /\ last.op = "malloc"
    /\ last.ret = "ptr"
    /\ Len(last.events) = 1
    /\ last.events[1].usage > 0
    /\ last.events[1].usage < last.events[1].maximum_usage

\* C14: a handle obtained from an arena (get_allocator, then get_handle)
\* points to live storage in every state in which the arena is alive.
\* Refuted: the handle is the address of get_handle's own parameter.
C14_HandleNeverDangling ==
    (handle # "none" /\ life = "alive") => handle \in live_storage

\* Whether the byte regions [a.offset, a.offset + a.len) and
\* [b.offset, b.offset + b.len) share no byte.
Disjoint(a, b) ==
    \/ a.len = 0
    \/ b.len = 0
    \/ a.offset + a.len <= b.offset
    \/ b.offset + b.len <= a.offset

\* C17: under balanced use the regions [offset, offset + rounded size) of
\* the allocations live at the same time are pairwise disjoint and lie
\* inside [0, SIZE).  Refuted where head + rounded size wraps.
C17_LiveRegionsDisjoint ==
    \A i \in 1..Len(live) :
        /\ 0 <= live[i].offset
        /\ live[i].offset + live[i].len <= SIZE
        /\ \A j \in 1..Len(live) : i # j => Disjoint(live[i], live[j])

====
